---- MODULE Spec2Model ----
(***************************************************************************)
(* Model of src/components/staging-parser.ts: getStagingDates and the      *)
(* five functions it calls (processHistories, processActiveStatuses,       *)
(* processInactiveStates, mapDoneIssue, mapNotDoneIssue).                  *)
(*                                                                         *)
(* A timestamp "2024-01-DDTHH:00:00.000+0000" is the pair <<DD, HH>>; day  *)
(* numbers count from 1 = Monday 2024-01-01 and run below 1 into December  *)
(* 2023.  A moment date is its day number.  An unset JavaScript value      *)
(* (undefined) is the empty sequence for scalars and a missing key for the *)
(* string-keyed side tables.                                               *)
(***************************************************************************)
EXTENDS Integers, Sequences, FiniteSets, TLC

VARIABLES issue, stages, activeStatuses, pc, sortedItems,
          activeStatusesPassedDays, inactiveStatusesDates, activeStatusDate,
          activeStatusDates, idx, result, error

vars == <<issue, stages, activeStatuses, pc, sortedItems,
          activeStatusesPassedDays, inactiveStatusesDates, activeStatusDate,
          activeStatusDates, idx, result, error>>

(***************************************************************************)
(* Bounds and input sets.                                                  *)
(***************************************************************************)
\* most status changes in one issue's changelog
MaxTransitions == 2

\* Object.keys(workflow): the workflows the issues are checked against
Workflows ==
  { <<"Backlog", "In Progress", "Done">>,
    <<"In Progress", "In Review", "Done">>,
    <<"Backlog", "In Progress", "done">> }

\* names a caller may list in activeStatuses ("In Review" is no stage of two
\* of the workflows)
ActiveNames == {"In Progress", "In Review"}

\* timestamps of history entries: Tue 2 Jan 09h and 17h, Wed 3 Jan, Sat 6 Jan,
\* Mon 8 Jan
Timestamps == { <<2, 9>>, <<2, 17>>, <<3, 9>>, <<6, 9>>, <<8, 9>> }

\* issue.fields.created: Sun 31 Dec 2023, Mon 1 Jan 2024, Tue 2 Jan 2024
CreatedTimestamps == { <<0, 9>>, <<1, 9>>, <<2, 9>> }

\* how the changelog lists its entries
Presentations == {"ascending", "descending", "ascending with other fields"}

(***************************************************************************)
(* JavaScript helpers.                                                     *)
(***************************************************************************)
Undefined == << >>

Range(s) == { s[k] : k \in DOMAIN s }

\* Array.prototype.includes
Includes(array, x) == \E k \in DOMAIN array : array[k] = x

\* [...array].reverse()
Reverse(array) == [k \in 1..Len(array) |-> array[Len(array) + 1 - k]]

\* Array.prototype.filter is SelectSeq of Sequences.

\* a.created < b.created on two ISO timestamps of one format: the strings
\* compare as their (day, hour) pairs do
StringLess(a, b) == a[1] < b[1] \/ (a[1] = b[1] /\ a[2] < b[2])

\* String.prototype.toLowerCase on the stage names in use
ToLowerCase(s) ==
  CASE s = "Done" -> "done"
    [] s = "done" -> "done"
    [] s = "Backlog" -> "backlog"
    [] s = "In Progress" -> "in progress"
    [] s = "In Review" -> "in review"

\* moment(created.split('T')[0]): the time of day is dropped
MomentOfDay(created) == created[1]

Digit == <<"0", "1", "2", "3", "4", "5", "6", "7", "8", "9">>

TwoDigits(n) == Digit[(n \div 10) + 1] \o Digit[(n % 10) + 1]

\* moment.format('YYYY-MM-DD') for the days of December 2023 and January 2024
Format(day) ==
  IF day >= 1 THEN "2024-01-" \o TwoDigits(day)
  ELSE "2023-12-" \o TwoDigits(31 + day)

\* (date && date.format('YYYY-MM-DD')) || '' on a side table
FormatOrEmpty(table, stage) ==
  IF stage \in DOMAIN table THEN Format(table[stage]) ELSE ""

(***************************************************************************)
(* The business-day calendar (moment-business-days, Monday to Friday, no    *)
(* holidays).  The library is not part of the repository; the operators    *)
(* follow its description as a capability: businessDiff counts the         *)
(* business days from the start date up to, not including, the end date.   *)
(***************************************************************************)
\* moment.fn.isBusinessDay: day 1 is a Monday
IsBusinessDay(day) == (day % 7) \in 1..5

\* statusEnd.businessDiff(statusStart): business days in [start, end)
BusinessDiff(statusEnd, statusStart) ==
  Cardinality({ d \in statusStart..(statusEnd - 1) : IsBusinessDay(d) })

\* moment.fn.businessAdd(n) for n >= 0: step a day at a time, counting
\* business days
RECURSIVE BusinessAdd(_, _)
BusinessAdd(day, n) ==
  IF n = 0 THEN day
  ELSE BusinessAdd(day + 1, IF IsBusinessDay(day + 1) THEN n - 1 ELSE n)

\* moment.fn.businessSubtract(n) for n >= 0
RECURSIVE BusinessSubtract(_, _)
BusinessSubtract(day, n) ==
  IF n = 0 THEN day
  ELSE BusinessSubtract(day - 1, IF IsBusinessDay(day - 1) THEN n - 1 ELSE n)

(***************************************************************************)
(* Inputs: an issue's changelog is the history of one status field, so a   *)
(* change leaves the status the change before it arrived in, at a time not *)
(* before it and not before the issue's creation.                          *)
(***************************************************************************)
StatusItem(from, to) == [field |-> "status", fromString |-> from, toString |-> to]

OtherItem == [field |-> "assignee", fromString |-> "nobody", toString |-> "somebody"]

StatusPaths(names, n) ==
  { p \in [1..(n + 1) -> names] : \A k \in 1..n : p[k] # p[k + 1] }

TimeLines(n) ==
  { t \in [1..n -> Timestamps] : \A k \in 1..(n - 1) : ~StringLess(t[k + 1], t[k]) }

Histories(path, times, created, presentation) ==
  LET n == Len(times)
      chronological ==
        [k \in 1..n |->
          [created |-> times[k],
           items |-> (IF presentation = "ascending with other fields"
                        THEN <<OtherItem>> ELSE << >>)
                     \o <<StatusItem(path[k], path[k + 1])>>]]
  IN  CASE presentation = "ascending" -> chronological
        [] presentation = "descending" -> Reverse(chronological)
        [] OTHER -> <<[created |-> created, items |-> <<OtherItem>>]>>
                      \o chronological

Issues(names) ==
  { [fields |-> [created |-> c],
     changelog |-> [histories |-> Histories(p, t, c, o)]] :
      <<c, o, p, t>> \in
        UNION { CreatedTimestamps \X Presentations \X StatusPaths(names, n) \X TimeLines(n) :
                n \in 0..MaxTransitions } }

ActiveLists ==
  UNION { { a \in [1..n -> ActiveNames] : \A j, k \in 1..n : a[j] = a[k] => j = k } :
          n \in 0..Cardinality(ActiveNames) }

(***************************************************************************)
(* processHistories                                                        *)
(***************************************************************************)
\* histories.map(...).filter(...).map(...) flattened by [].concat.apply
RECURSIVE FlattenHistories(_)
FlattenHistories(histories) ==
  IF histories = << >> THEN << >>
  ELSE LET history == Head(histories)
           statusItems == SelectSeq(history.items, LAMBDA item : item.field = "status")
       IN  [k \in 1..Len(statusItems) |->
              [fromString |-> statusItems[k].fromString,
               toString |-> statusItems[k].toString,
               created |-> history.created,
               previousCreated |-> Undefined]]
           \o FlattenHistories(Tail(histories))

\* .sort((a, b) => a.created < b.created ? -1 : 1): the comparator never
\* answers 0, so it is not a consistent comparison and the engine decides
\* where items of equal timestamp go (V8's insertion sort up to Node 10
\* reverses them, its TimSort keeps them).  Every arrangement in
\* non-decreasing timestamp order is an outcome.
SortOutcomes(items) ==
  LET n == Len(items)
  IN  { [k \in 1..n |-> items[p[k]]] :
          p \in { q \in [1..n -> 1..n] :
                    /\ \A j, k \in 1..n : q[j] = q[k] => j = k
                    /\ \A k \in 1..(n - 1) :
                         ~StringLess(items[q[k + 1]].created, items[q[k]].created) } }

\* the forEach that sets previousCreated
SetPreviousCreated(items) ==
  [k \in 1..Len(items) |->
     IF k = 1 THEN items[k]
     ELSE [items[k] EXCEPT !.previousCreated = items[k - 1].created]]

(***************************************************************************)
(* processActiveStatuses                                                   *)
(***************************************************************************)
\* Episodes, selecting the transitions into the stage instead of those out of it
Episodes_ByToString(items, stage) == SelectSeq(items, LAMBDA item : item.toString = stage)

\* sortedItems.filter(item => item.fromString === stage)
Episodes(items, stage) == SelectSeq(items, LAMBDA item : item.fromString = stage)

\* stages.filter(stage => activeStatuses.includes(stage))
ActiveStages(workflow, active) == SelectSeq(workflow, LAMBDA stage : Includes(active, stage))

\* item.previousCreated, or issue.fields.created where it is unset
EpisodeStart(item, created) ==
  IF item.previousCreated = Undefined THEN created ELSE item.previousCreated

\* the reduce: passedDays + statusEnd.businessDiff(statusStart) per episode
RECURSIVE SumPassedDays(_, _)
SumPassedDays(episodes, created) ==
  IF episodes = << >> THEN 0
  ELSE BusinessDiff(MomentOfDay(Head(episodes).created),
                    MomentOfDay(EpisodeStart(Head(episodes), created)))
       + SumPassedDays(Tail(episodes), created)

StagePassedDays(items, stage, created) ==
  [didHappen |-> Episodes(items, stage) # << >>,
   passedDays |-> SumPassedDays(Episodes(items, stage), created)]

\* activeStatusesPassedDays[stage] = ... for every active stage of the workflow
PassedDaysTable(workflow, active, items, created) ==
  [stage \in Range(ActiveStages(workflow, active)) |->
     StagePassedDays(items, stage, created)]

\* activeStatusDate: statusStart of the first episode of the first active
\* stage, in workflow order, that has one
FirstActiveStatusDate(workflow, active, items, created) ==
  LET happened == SelectSeq(ActiveStages(workflow, active),
                         LAMBDA stage : Episodes(items, stage) # << >>)
  IN  IF happened = << >> THEN Undefined
      ELSE <<MomentOfDay(EpisodeStart(Head(Episodes(items, Head(happened))), created))>>

\* item.previousCreated = issue.fields.created, written into the items the
\* reduce visits
FillPreviousCreated(workflow, active, items, created) ==
  [k \in 1..Len(items) |->
     IF /\ Includes(ActiveStages(workflow, active), items[k].fromString)
        /\ items[k].previousCreated = Undefined
     THEN [items[k] EXCEPT !.previousCreated = created]
     ELSE items[k]]

(***************************************************************************)
(* processInactiveStates                                                   *)
(***************************************************************************)
\* FirstStageItem, finding the first transition out of the stage instead of into it
FirstStageItem_ByFromString(items, stage) ==
  SelectSeq(items, LAMBDA item : item.fromString = stage)

\* sortedItems.find(item => item.toString === stage)
FirstStageItem(items, stage) == SelectSeq(items, LAMBDA item : item.toString = stage)

\* inactiveStatusesDates[stage] = moment(firstStageItem.created.split('T')[0])
InactiveDatesTable(workflow, active, items) ==
  [stage \in { s \in Range(workflow) :
                 ~Includes(active, s) /\ FirstStageItem(items, s) # << >> } |->
     MomentOfDay(Head(FirstStageItem(items, stage)).created)]

(***************************************************************************)
(* mapDoneIssue                                                            *)
(***************************************************************************)
\* table[key] = value
Put(table, key, value) ==
  [k \in (DOMAIN table) \cup {key} |-> IF k = key THEN value ELSE table[k]]

\* DoneVisit without the early return for a stage that did not happen
DoneVisit_NoSkip(status, cursor, dates, passedDaysTable) ==
  LET moved == BusinessSubtract(cursor, passedDaysTable[status].passedDays)
  IN  [activeStatusDate |-> moved, activeStatusDates |-> Put(dates, status, moved)]

\* DoneVisit storing the cursor before the subtraction instead of after it
DoneVisit_AssignBeforeSubtract(status, cursor, dates, passedDaysTable) ==
  IF ~passedDaysTable[status].didHappen
  THEN [activeStatusDate |-> cursor, activeStatusDates |-> dates]
  ELSE [activeStatusDate |-> BusinessSubtract(cursor, passedDaysTable[status].passedDays),
        activeStatusDates |-> Put(dates, status, cursor)]

\* one pass of activeStatusesReversed.forEach over a status the duration
\* table knows
DoneVisit(status, cursor, dates, passedDaysTable) ==
  IF ~passedDaysTable[status].didHappen
  THEN [activeStatusDate |-> cursor, activeStatusDates |-> dates]
  ELSE LET moved == BusinessSubtract(cursor, passedDaysTable[status].passedDays)
       IN  [activeStatusDate |-> moved, activeStatusDates |-> Put(dates, status, moved)]

\* the final stages.map of mapDoneIssue
DoneOutput(workflow, active, dates, inactiveDates) ==
  [k \in 1..Len(workflow) |->
     IF Includes(active, workflow[k])
     THEN FormatOrEmpty(dates, workflow[k])
     ELSE FormatOrEmpty(inactiveDates, workflow[k])]

\* the whole forEach: the dates table, or a TypeError where
\* activeStatusesPassedDays[status] is undefined
RECURSIVE DoneWalk(_, _, _, _)
DoneWalk(statuses, cursor, dates, passedDaysTable) ==
  IF statuses = << >> THEN [thrown |-> FALSE, activeStatusDates |-> dates]
  ELSE IF Head(statuses) \notin DOMAIN passedDaysTable
       THEN [thrown |-> TRUE, activeStatusDates |-> dates]
       ELSE LET v == DoneVisit(Head(statuses), cursor, dates, passedDaysTable)
            IN  DoneWalk(Tail(statuses), v.activeStatusDate, v.activeStatusDates,
                         passedDaysTable)

MapDoneIssue(workflow, active, passedDaysTable, inactiveDates) ==
  LET walk == DoneWalk(Reverse(active), inactiveDates["Done"], << >>, passedDaysTable)
  IN  IF walk.thrown THEN [thrown |-> TRUE, value |-> << >>]
      ELSE [thrown |-> FALSE,
            value |-> DoneOutput(workflow, active, walk.activeStatusDates, inactiveDates)]

(***************************************************************************)
(* mapNotDoneIssue                                                         *)
(***************************************************************************)
\* NotDoneVisit calling businessAdd without keeping its result
NotDoneVisit_NoAdvance(stage, active, passedDaysTable, inactiveDates, cursor) ==
  LET isDone == ToLowerCase(stage) = "done"
  IN  IF ~Includes(active, stage) /\ ~isDone
      THEN [thrown |-> FALSE, value |-> FormatOrEmpty(inactiveDates, stage),
            activeStatusDate |-> cursor]
      ELSE IF isDone /\ stage \notin DOMAIN inactiveDates
      THEN [thrown |-> FALSE, value |-> "", activeStatusDate |-> cursor]
      ELSE IF isDone
      THEN IF cursor = Undefined
           THEN [thrown |-> TRUE, value |-> "", activeStatusDate |-> cursor]
           ELSE [thrown |-> FALSE, value |-> Format(cursor[1]), activeStatusDate |-> cursor]
      ELSE IF ~passedDaysTable[stage].didHappen
      THEN [thrown |-> FALSE, value |-> "", activeStatusDate |-> cursor]
      ELSE [thrown |-> FALSE, value |-> Format(cursor[1]), activeStatusDate |-> cursor]

\* one pass of stages.map: the string returned (or a TypeError where
\* activeStatusDate is undefined at line 100) and the cursor left behind
NotDoneVisit(stage, active, passedDaysTable, inactiveDates, cursor) ==
  LET isDone == ToLowerCase(stage) = "done"
  IN  IF ~Includes(active, stage) /\ ~isDone
      THEN [thrown |-> FALSE, value |-> FormatOrEmpty(inactiveDates, stage),
            activeStatusDate |-> cursor]
      ELSE IF isDone /\ stage \notin DOMAIN inactiveDates
      THEN [thrown |-> FALSE, value |-> "", activeStatusDate |-> cursor]
      ELSE IF isDone
      THEN IF cursor = Undefined
           THEN [thrown |-> TRUE, value |-> "", activeStatusDate |-> cursor]
           ELSE [thrown |-> FALSE, value |-> Format(cursor[1]), activeStatusDate |-> cursor]
      ELSE IF ~passedDaysTable[stage].didHappen
      THEN [thrown |-> FALSE, value |-> "", activeStatusDate |-> cursor]
      ELSE [thrown |-> FALSE, value |-> Format(cursor[1]),
            activeStatusDate |->
              <<BusinessAdd(cursor[1], passedDaysTable[stage].passedDays)>>]

\* the whole stages.map of mapNotDoneIssue, from stage k on
RECURSIVE NotDoneWalk(_, _, _, _, _, _)
NotDoneWalk(workflow, k, active, passedDaysTable, inactiveDates, cursor) ==
  IF k > Len(workflow) THEN [thrown |-> FALSE, value |-> << >>]
  ELSE LET v == NotDoneVisit(workflow[k], active, passedDaysTable, inactiveDates, cursor)
           rest == NotDoneWalk(workflow, k + 1, active, passedDaysTable, inactiveDates,
                               v.activeStatusDate)
       IN  IF v.thrown \/ rest.thrown THEN [thrown |-> TRUE, value |-> << >>]
           ELSE [thrown |-> FALSE, value |-> <<v.value>> \o rest.value]

MapNotDoneIssue(workflow, active, passedDaysTable, inactiveDates, cursor) ==
  NotDoneWalk(workflow, 1, active, passedDaysTable, inactiveDates, cursor)

(***************************************************************************)
(* getStagingDates, as a function of the sorted transitions                *)
(***************************************************************************)
GetStagingDates(created, workflow, active, items) ==
  LET passed == PassedDaysTable(workflow, active, items, created)
      anchor == FirstActiveStatusDate(workflow, active, items, created)
      inactive == InactiveDatesTable(workflow, active, items)
  IN  IF "Done" \notin DOMAIN inactive
      THEN MapNotDoneIssue(workflow, active, passed, inactive, anchor)
      ELSE MapDoneIssue(workflow, active, passed, inactive)

(***************************************************************************)
(* getStagingDates, step by step                                           *)
(***************************************************************************)
Init ==
  /\ stages \in Workflows
  /\ activeStatuses \in ActiveLists
  /\ issue \in Issues(Range(stages))
  /\ pc = "processHistories"
  /\ sortedItems = << >>
  /\ activeStatusesPassedDays = << >>
  /\ inactiveStatusesDates = << >>
  /\ activeStatusDate = Undefined
  /\ activeStatusDates = << >>
  /\ idx = 1
  /\ result = << >>
  /\ error = "none"

\* line 116
ProcessHistories ==
  /\ pc = "processHistories"
  /\ sortedItems' \in
       { SetPreviousCreated(s) : s \in SortOutcomes(FlattenHistories(issue.changelog.histories)) }
  /\ pc' = "processActiveStatuses"
  /\ UNCHANGED <<issue, stages, activeStatuses, activeStatusesPassedDays,
                 inactiveStatusesDates, activeStatusDate, activeStatusDates,
                 idx, result, error>>

\* line 124
ProcessActiveStatuses ==
  /\ pc = "processActiveStatuses"
  /\ activeStatusesPassedDays' =
       PassedDaysTable(stages, activeStatuses, sortedItems, issue.fields.created)
  /\ activeStatusDate' =
       FirstActiveStatusDate(stages, activeStatuses, sortedItems, issue.fields.created)
  /\ sortedItems' =
       FillPreviousCreated(stages, activeStatuses, sortedItems, issue.fields.created)
  /\ pc' = "processInactiveStates"
  /\ UNCHANGED <<issue, stages, activeStatuses, inactiveStatusesDates,
                 activeStatusDates, idx, result, error>>

\* lines 127-135: the inactive dates, then the choice of the branch;
\* mapDoneIssue starts its own activeStatusDate at inactiveStatusesDates['Done']
ProcessInactiveStates ==
  /\ pc = "processInactiveStates"
  /\ inactiveStatusesDates' = InactiveDatesTable(stages, activeStatuses, sortedItems)
  /\ IF "Done" \notin DOMAIN inactiveStatusesDates'
     THEN /\ pc' = "mapNotDoneIssue"
          /\ UNCHANGED activeStatusDate
     ELSE /\ pc' = "mapDoneIssue"
          /\ activeStatusDate' = <<inactiveStatusesDates'["Done"]>>
  /\ UNCHANGED <<issue, stages, activeStatuses, sortedItems,
                 activeStatusesPassedDays, activeStatusDates, idx, result, error>>

\* lines 68-77: one status of activeStatusesReversed
MapDoneIssueVisit ==
  /\ pc = "mapDoneIssue"
  /\ idx <= Len(activeStatuses)
  /\ LET status == Reverse(activeStatuses)[idx]
     IN  IF status \notin DOMAIN activeStatusesPassedDays
         THEN /\ pc' = "thrown"
              /\ error' = "TypeError"
              /\ UNCHANGED <<activeStatusDate, activeStatusDates, idx>>
         ELSE LET v == DoneVisit(status, activeStatusDate[1], activeStatusDates,
                                 activeStatusesPassedDays)
              IN  /\ activeStatusDate' = <<v.activeStatusDate>>
                  /\ activeStatusDates' = v.activeStatusDates
                  /\ idx' = idx + 1
                  /\ UNCHANGED <<pc, error>>
  /\ UNCHANGED <<issue, stages, activeStatuses, sortedItems,
                 activeStatusesPassedDays, inactiveStatusesDates, result>>

\* lines 78-86
MapDoneIssueReturn ==
  /\ pc = "mapDoneIssue"
  /\ idx > Len(activeStatuses)
  /\ result' = DoneOutput(stages, activeStatuses, activeStatusDates, inactiveStatusesDates)
  /\ pc' = "returned"
  /\ UNCHANGED <<issue, stages, activeStatuses, sortedItems,
                 activeStatusesPassedDays, inactiveStatusesDates, activeStatusDate,
                 activeStatusDates, idx, error>>

\* lines 90-110: one stage of stages.map; the call returns after the last
MapNotDoneIssueVisit ==
  /\ pc = "mapNotDoneIssue"
  /\ idx <= Len(stages)
  /\ LET v == NotDoneVisit(stages[idx], activeStatuses, activeStatusesPassedDays,
                           inactiveStatusesDates, activeStatusDate)
     IN  IF v.thrown
         THEN /\ pc' = "thrown"
              /\ error' = "TypeError"
              /\ UNCHANGED <<activeStatusDate, idx, result>>
         ELSE /\ result' = Append(result, v.value)
              /\ activeStatusDate' = v.activeStatusDate
              /\ idx' = idx + 1
              /\ pc' = IF idx = Len(stages) THEN "returned" ELSE pc
              /\ UNCHANGED error
  /\ UNCHANGED <<issue, stages, activeStatuses, sortedItems,
                 activeStatusesPassedDays, inactiveStatusesDates, activeStatusDates>>

Next ==
  \/ ProcessHistories
  \/ ProcessActiveStatuses
  \/ ProcessInactiveStates
  \/ MapDoneIssueVisit
  \/ MapDoneIssueReturn
  \/ MapNotDoneIssueVisit

Spec == Init /\ [][Next]_vars

\* the step-by-step run ends as the function says
StepsAgreeWithFunction ==
  LET whole == GetStagingDates(issue.fields.created, stages, activeStatuses, sortedItems)
  IN  /\ pc = "returned" => ~whole.thrown /\ whole.value = result
      /\ pc = "thrown" => whole.thrown

(***************************************************************************)
(* What the claims speak of, read off the inputs.                          *)
(***************************************************************************)
\* every status record of the changelog, as <<fromStatus, toStatus, occurredAt>>
Transitions ==
  { <<h.items[k].fromString, h.items[k].toString, h.created>> :
      <<h, k>> \in { <<g, j>> \in Range(issue.changelog.histories) \X (1..2) :
                       j \in DOMAIN g.items /\ g.items[j].field = "status" } }

EntryTimes(stage) == { t[3] : t \in { u \in Transitions : u[2] = stage } }

Earliest(times) == CHOOSE t \in times : \A u \in times : ~StringLess(u, t)

\* the calendar date of the first transition into the stage
EntryDate(stage) == Format(Earliest(EntryTimes(stage))[1])

\* the active stage has zero episodes
NoEpisode(stage) == \A t \in Transitions : t[1] # stage

ValidInput == \A k \in DOMAIN activeStatuses : activeStatuses[k] \in Range(stages)

IsDateString(s) == \E d \in (0 - 30)..31 : s = Format(d)

DoneBranch == ~Includes(activeStatuses, "Done") /\ EntryTimes("Done") # {}

StageIndex(stage) == CHOOSE k \in DOMAIN stages : stages[k] = stage

\* C1: with valid inputs getStagingDates never throws and returns one
\* element per workflow stage, each a YYYY-MM-DD date or the empty string.
C1_ReturnsDateVector ==
  ValidInput =>
    /\ pc # "thrown"
    /\ pc = "returned" =>
         /\ Len(result) = Len(stages)
         /\ \A k \in DOMAIN result : result[k] = "" \/ IsDateString(result[k])

\* C2: every inactive stage some transition enters is given the calendar
\* date of the first such transition, in both branches, a stage recognised
\* as Done in the forward branch included.
C2_InactiveStageDirectness ==
  (pc = "returned" /\ ValidInput) =>
    \A k \in DOMAIN stages :
      (~Includes(activeStatuses, stages[k]) /\ EntryTimes(stages[k]) # {})
        => result[k] = EntryDate(stages[k])

\* C3: an active stage with zero episodes is given the empty string in both
\* branches, and visiting it leaves the simulation cursor (and the dates
\* simulated so far) as they were.
C3_VisitsNoEpisodeStage ==
  \/ /\ pc = "mapNotDoneIssue"
     /\ idx <= Len(stages)
     /\ Includes(activeStatuses, stages[idx])
     /\ NoEpisode(stages[idx])
  \/ /\ pc = "mapDoneIssue"
     /\ idx <= Len(activeStatuses)
     /\ Reverse(activeStatuses)[idx] \in Range(stages)
     /\ NoEpisode(Reverse(activeStatuses)[idx])

C3_NoEpisodeStageIsEmpty ==
  pc = "returned" =>
    \A k \in DOMAIN stages :
      (Includes(activeStatuses, stages[k]) /\ NoEpisode(stages[k])) => result[k] = ""

C3_ScenarioC ==
  /\ []C3_NoEpisodeStageIsEmpty
  /\ [][C3_VisitsNoEpisodeStage =>
          /\ activeStatusDate' = activeStatusDate
          /\ activeStatusDates' = activeStatusDates]_vars

\* a returned run in which one active stage had no episode and a later
\* active stage was given a date
C3_Witness ==
  /\ pc = "returned"
  /\ \E j, k \in DOMAIN stages :
       /\ j < k
       /\ Includes(activeStatuses, stages[j]) /\ NoEpisode(stages[j])
       /\ Includes(activeStatuses, stages[k]) /\ result[k] # ""

IsScenarioA ==
  /\ stages = <<"Backlog", "In Progress", "Done">>
  /\ activeStatuses = <<"In Progress">>
  /\ issue.fields.created[1] = 1
  /\ { <<t[1], t[2], t[3][1]>> : t \in Transitions }
       = { <<"Backlog", "In Progress", 2>>, <<"In Progress", "Done", 8>> }
  /\ Len(FlattenHistories(issue.changelog.histories)) = 2

\* C4 as claimed: Scenario A returns ["2024-01-02", "2024-01-02", "2024-01-08"].
C4_ScenarioA_AsClaimed ==
  (pc = "returned" /\ IsScenarioA)
    => result = <<"2024-01-02", "2024-01-02", "2024-01-08">>

\* C4 as amended: Scenario A returns ["", "2024-01-02", "2024-01-08"]; for a
\* completed issue with one active stage, an inactive stage no transition
\* enters (the initial one) is given the empty string, every other inactive
\* stage, Done included, the date of the first transition into it, and the
\* active stage, if it has an episode, the Done date minus its accumulated
\* business days.
C4_ScenarioA ==
  /\ (pc = "returned" /\ IsScenarioA)
       => result = <<"", "2024-01-02", "2024-01-08">>
  /\ (pc = "returned" /\ DoneBranch /\ ValidInput /\ Len(activeStatuses) = 1) =>
       \A k \in DOMAIN stages :
         /\ (~Includes(activeStatuses, stages[k]) /\ EntryTimes(stages[k]) = {})
              => result[k] = ""
         /\ (~Includes(activeStatuses, stages[k]) /\ EntryTimes(stages[k]) # {})
              => result[k] = EntryDate(stages[k])
         /\ (Includes(activeStatuses, stages[k]) /\ ~NoEpisode(stages[k]))
              => result[k] = Format(BusinessSubtract(
                                      Earliest(EntryTimes("Done"))[1],
                                      activeStatusesPassedDays[stages[k]].passedDays))

C4_Witness == pc = "returned" /\ IsScenarioA /\ result[3] = "2024-01-08"

IsScenarioB ==
  /\ stages = <<"Backlog", "In Progress", "Done">>
  /\ activeStatuses = <<"In Progress">>
  /\ issue.fields.created[1] = 2
  /\ { <<t[1], t[2], t[3][1]>> : t \in Transitions }
       = { <<"Backlog", "In Progress", 3>> }
  /\ Len(FlattenHistories(issue.changelog.histories)) = 1

\* C5 as claimed: Scenario B returns ["2024-01-03", "2024-01-03", ""].
C5_ScenarioB_AsClaimed ==
  (pc = "returned" /\ IsScenarioB) => result = <<"2024-01-03", "2024-01-03", "">>

\* C5 as amended: Scenario B returns ["", "", ""]; for an issue that has not
\* reached Done, an active stage it has entered but never left is given the
\* empty string, and so is Done.
C5_ScenarioB ==
  /\ (pc = "returned" /\ IsScenarioB) => result = <<"", "", "">>
  /\ (pc = "returned" /\ ~DoneBranch) =>
       \A k \in DOMAIN stages :
         /\ (/\ Includes(activeStatuses, stages[k])
             /\ EntryTimes(stages[k]) # {}
             /\ NoEpisode(stages[k])) => result[k] = ""
         /\ stages[k] = "Done" => result[k] = ""

C5_Witness == pc = "returned" /\ IsScenarioB /\ Len(result) = 3

\* C6: an activeStatuses entry that is no workflow stage ends the call in a
\* labelled "invalid input" error, never in a date vector.
C6_InvalidInputFailsFast ==
  (~ValidInput /\ pc \in {"returned", "thrown"})
    => (pc = "thrown" /\ error = "invalid input")

\* the forward pass is about to advance its cursor over an active stage
\* that happened
C7_ForwardAdvance ==
  /\ pc = "mapNotDoneIssue"
  /\ idx <= Len(stages)
  /\ ToLowerCase(stages[idx]) # "done"
  /\ stages[idx] \in DOMAIN activeStatusesPassedDays
  /\ activeStatusesPassedDays[stages[idx]].didHappen

\* C7 as claimed: subtractBusinessDays(addBusinessDays(d, n), n) = d for
\* every cursor d of the simulation, Saturdays and Sundays included.
C7_DurationSymmetry_AsClaimed ==
  [][C7_ForwardAdvance =>
       BusinessSubtract(activeStatusDate'[1],
                        activeStatusesPassedDays[stages[idx]].passedDays)
         = activeStatusDate[1]]_vars

\* C7 as amended: subtractBusinessDays(addBusinessDays(d, n), n) = d for
\* every cursor d that is a business day and every n >= 0, and for a
\* Saturday or Sunday d when n = 0: taking the stage's business days back
\* off the cursor the forward pass leaves gives the date it assigned.
C7_DurationSymmetry ==
  [][(/\ C7_ForwardAdvance
      /\ \/ IsBusinessDay(activeStatusDate[1])
         \/ activeStatusesPassedDays[stages[idx]].passedDays = 0) =>
       BusinessSubtract(activeStatusDate'[1],
                        activeStatusesPassedDays[stages[idx]].passedDays)
         = activeStatusDate[1]]_vars

\* the forward pass has advanced a business-day cursor by at least one day
C7_Witness ==
  /\ pc = "mapNotDoneIssue"
  /\ idx > 1 /\ idx <= Len(stages)
  /\ stages[idx - 1] \in DOMAIN activeStatusesPassedDays
  /\ activeStatusesPassedDays[stages[idx - 1]].passedDays >= 1
  /\ \E d \in 1..31 : IsBusinessDay(d) /\ result[idx - 1] = Format(d)
  /\ activeStatusDate # Undefined
  /\ result[idx - 1] # Format(activeStatusDate[1])

\* the backward pass is about to visit an active stage that happened
C8_BackwardVisit ==
  /\ pc = "mapDoneIssue"
  /\ idx <= Len(activeStatuses)
  /\ Reverse(activeStatuses)[idx] \in DOMAIN activeStatusesPassedDays
  /\ activeStatusesPassedDays[Reverse(activeStatuses)[idx]].didHappen

\* the first status the backward pass visits that happened
C8_LastHappened ==
  LET r == Reverse(activeStatuses)
      happened == { k \in DOMAIN r : r[k] \in DOMAIN activeStatusesPassedDays
                                      /\ activeStatusesPassedDays[r[k]].didHappen }
  IN  IF happened = {} THEN << >>
      ELSE <<r[CHOOSE k \in happened : \A j \in happened : k <= j]>>

\* C8 as claimed: a visited stage is given the cursor as it was before the
\* subtraction, so the last active stage that happened is given the Done date.
C8_BackwardStep_AsClaimed ==
  (pc = "returned" /\ DoneBranch /\ ValidInput /\ C8_LastHappened # << >>)
    => result[StageIndex(C8_LastHappened[1])] = EntryDate("Done")

\* C8 as amended: the cursor starts at the Done date; a visited stage that
\* happened first moves the cursor back by its passedBusinessDays and is
\* then given the moved cursor, so the last active stage that happened is
\* given the Done date minus its own business days.
C8_BackwardStep ==
  /\ [](/\ (pc = "mapDoneIssue" /\ idx = 1)
             => activeStatusDate = <<Earliest(EntryTimes("Done"))[1]>>
        /\ (pc = "returned" /\ DoneBranch /\ ValidInput /\ C8_LastHappened # << >>)
             => result[StageIndex(C8_LastHappened[1])]
                  = Format(BusinessSubtract(
                             Earliest(EntryTimes("Done"))[1],
                             activeStatusesPassedDays[C8_LastHappened[1]].passedDays)))
  /\ [][C8_BackwardVisit =>
          LET status == Reverse(activeStatuses)[idx]
          IN  /\ activeStatusDate' =
                   <<BusinessSubtract(activeStatusDate[1],
                                      activeStatusesPassedDays[status].passedDays)>>
              /\ status \in DOMAIN activeStatusDates'
              /\ activeStatusDates'[status] = activeStatusDate'[1]]_vars

\* a completed issue whose last active stage took at least one business day
C8_Witness ==
  /\ pc = "returned" /\ DoneBranch /\ ValidInput
  /\ C8_LastHappened # << >>
  /\ activeStatusesPassedDays[C8_LastHappened[1]].passedDays >= 1
  /\ result[StageIndex(C8_LastHappened[1])] # ""

\* C9: the same stage names listed in another order in activeStatuses give
\* the same date vector.
C9_ActiveOrderIrrelevant ==
  (pc = "returned" /\ ValidInput) =>
    \A other \in { a \in ActiveLists : Len(a) = Len(activeStatuses)
                                       /\ Range(a) = Range(activeStatuses) } :
      LET again == GetStagingDates(issue.fields.created, stages, other, sortedItems)
      IN  ~again.thrown /\ again.value = result

\* the status records in changelog order
C10_Records == FlattenHistories(issue.changelog.histories)

\* where a stable sort by timestamp puts record k
C10_StablePlace(k) ==
  1 + Cardinality({ j \in DOMAIN C10_Records :
                      \/ StringLess(C10_Records[j].created, C10_Records[k].created)
                      \/ C10_Records[j].created = C10_Records[k].created /\ j < k })

\* C10: processHistories returns one transition per status record, in
\* non-decreasing timestamp order with equal timestamps in their original
\* order, the first without previousOccurredAt and each later one with the
\* occurredAt of the transition before it.
C10_TransitionExtractor ==
  pc = "processActiveStatuses" =>
    /\ Len(sortedItems) = Len(C10_Records)
    /\ \A k \in DOMAIN C10_Records :
         LET item == sortedItems[C10_StablePlace(k)]
         IN  /\ item.fromString = C10_Records[k].fromString
             /\ item.toString = C10_Records[k].toString
             /\ item.created = C10_Records[k].created
    /\ \A k \in DOMAIN sortedItems :
         sortedItems[k].previousCreated =
           IF k = 1 THEN Undefined ELSE sortedItems[k - 1].created

\* the same without the order of equal timestamps
C10_WithoutTieOrder ==
  pc = "processActiveStatuses" =>
    /\ Len(sortedItems) = Len(C10_Records)
    /\ \E p \in [DOMAIN C10_Records -> DOMAIN C10_Records] :
         /\ \A j, k \in DOMAIN p : p[j] = p[k] => j = k
         /\ \A k \in DOMAIN p :
              /\ sortedItems[p[k]].fromString = C10_Records[k].fromString
              /\ sortedItems[p[k]].toString = C10_Records[k].toString
              /\ sortedItems[p[k]].created = C10_Records[k].created
    /\ \A k \in DOMAIN sortedItems :
         /\ k > 1 => ~StringLess(sortedItems[k].created, sortedItems[k - 1].created)
         /\ sortedItems[k].previousCreated =
              IF k = 1 THEN Undefined ELSE sortedItems[k - 1].created
====
